---- MODULE Spec2Model ----
(***************************************************************************)
(* A model of the metaflask registry (libmetaflask.py) and of the GitHub   *)
(* team reconciler and sponsorship tree of its API (metaflaskapi.py).      *)
(*                                                                         *)
(* A member file is a directory entry [num, id, doc]: the filename         *)
(* NNNN_id.txt parsed by _member_re, and the document it holds.  A         *)
(* document [github, sponsor, body] stands for the file's exact bytes: the *)
(* two headers the code reads and whatever else the bytes hold.            *)
(***************************************************************************)
EXTENDS Integers, Sequences, FiniteSets, TLC

VARIABLES
    listing,           \* os.listdir(member_path): the entries, in enumeration order
    view,              \* the MetaView's five member indices
    vpc,               \* "nocheckout", then "new" until MetaView.__init__ has run,
                       \* then "built"
    yielded,           \* what the last iter_members() yielded
    query,             \* the path last given to locate_linked_member
    located,           \* what locate_linked_member returned for it
    links,             \* get_member_tree_api's links: sponsor -> members sponsored
    stack,             \* the active calls of _make_tree, outermost first
    tree,              \* get_member_tree_api's return value
    tpc,               \* "idle", "running" or "done": the tree request
    roster,            \* the GitHub team: the logins that are members
    invited,           \* the GitHub team: the logins with a pending invitation
    spc,               \* "idle", "running", "done" or "failed": the pass of sync_members
    current_members,   \* sync_members' locals
    intended_members,
    new_members,
    reported,          \* the members member_is_pending has returned True for in the pass
    removed,           \* the members the second loop of sync_members has been through
    log,               \* the remote calls and the yields of the pass, in order
    passes,            \* the passes started so far
    settled,           \* the pass before this one ran to its end
    stream,            \* read_mime's f: the lines of the file not read yet
    hashed,            \* the lines read_mime's h has been updated with, in order
    headers,           \* read_mime's headers: the (key, value) pairs so far
    line,              \* the line the loop of read_mime looked at last
    old_headers,       \* headers as they were before that line
    payload,           \* read_mime's payload: the lines f.read() returned
    mpc                \* "closed", "reading", "returned", "ValueError" or
                       \* "IndexError": the call of read_mime

viewVars == <<listing, view, vpc, yielded, query, located>>
treeVars == <<links, stack, tree, tpc>>
remoteVars == <<roster, invited>>
syncVars == <<roster, invited, spc, current_members, intended_members, new_members,
              reported, removed, log, passes, settled>>
mimeVars == <<stream, hashed, headers, line, old_headers, payload, mpc>>
vars == <<listing, view, vpc, yielded, query, located, links, stack, tree, tpc,
          roster, invited, spc, current_members, intended_members, new_members,
          reported, removed, log, passes, settled,
          stream, hashed, headers, line, old_headers, payload, mpc>>

-----------------------------------------------------------------------------
(* Values *)

\* Python's None where a string is expected (a header that is absent).
None == "None"

\* Python's None where a Member is expected.
NoMember == [path |-> <<0, "">>, num |-> 0, id |-> "", github |-> None,
             sponsor_key |-> None, checksum |-> <<"sha1", "">>]

\* The bound on the number of entries of the members directory.
MaxFiles == 3

\* hashlib.sha1(bytes).hexdigest(): a digest that tells any two documents apart.
sha1(doc) == <<"sha1", doc>>

\* _member_re.match(filename): the entry's name is NNNN_<id>.txt (num > 0 here).
member_re_match(entry) == entry.num > 0

\* dict.get(key): the value, or None.
Get(d, k) == IF k \in DOMAIN d THEN d[k] ELSE NoMember

\* d[key] = value.
Put(d, k, v) == [x \in (DOMAIN d) \cup {k} |-> IF x = k THEN v ELSE d[x]]

\* The range of a sequence or dict.
Range(f) == {f[x] : x \in DOMAIN f}

-----------------------------------------------------------------------------
(* libmetaflask: Member, read_members, MetaView *)

\* Member(metaview, path, num, id, f): Person.__init__ reads the document.
Member_init(entry) ==
    [path        |-> <<entry.num, entry.id>>,
     num         |-> entry.num,
     id          |-> entry.id,
     github      |-> entry.doc.github,
     sponsor_key |-> entry.doc.sponsor,
     checksum    |-> sha1(entry.doc)]

\* The members of the listing's matching entries, in enumeration order.
RECURSIVE ReadEntries(_)
ReadEntries(entries) ==
    IF entries = <<>> THEN <<>>
    ELSE LET rest == ReadEntries(Tail(entries))
         IN  IF member_re_match(Head(entries))
             THEN <<Member_init(Head(entries))>> \o rest
             ELSE rest

\* list.sort(key=num) is stable: m goes after every member whose number is
\* not larger.
RECURSIVE InsertByNum(_, _)
InsertByNum(sorted, m) ==
    IF sorted = <<>> THEN <<m>>
    ELSE IF Head(sorted).num <= m.num
         THEN <<Head(sorted)>> \o InsertByNum(Tail(sorted), m)
         ELSE <<m>> \o sorted

RECURSIVE SortByNum(_)
SortByNum(ms) ==
    IF ms = <<>> THEN <<>>
    ELSE InsertByNum(SortByNum(SubSeq(ms, 1, Len(ms) - 1)), ms[Len(ms)])

read_members(entries) == SortByNum(ReadEntries(entries))

EmptyView ==
    [members_by_id       |-> <<>>,
     members_by_num      |-> <<>>,
     members_by_github   |-> <<>>,
     members_by_checksum |-> <<>>,
     members_by_path     |-> <<>>]

\* The body of MetaView.__init__'s loop: one member into the five indices.
IndexMember(v, mem) ==
    [members_by_id       |-> Put(v.members_by_id, mem.id, mem),
     members_by_num      |-> Put(v.members_by_num, mem.num, mem),
     members_by_github   |-> IF mem.github # None
                             THEN Put(v.members_by_github, mem.github, mem)
                             ELSE v.members_by_github,
     members_by_checksum |-> Put(v.members_by_checksum, mem.checksum, mem),
     members_by_path     |-> Put(v.members_by_path, mem.path, mem)]

RECURSIVE IndexAll(_, _)
IndexAll(v, ms) ==
    IF ms = <<>> THEN v ELSE IndexAll(IndexMember(v, Head(ms)), Tail(ms))

\* MetaView(path): the indices over read_members.
MetaView(entries) == IndexAll(EmptyView, read_members(entries))

\* A bug: the items sorted in descending key order.
RECURSIVE SortedValuesDescending(_)
SortedValuesDescending(d) ==
    IF DOMAIN d = {} THEN <<>>
    ELSE LET k == CHOOSE x \in DOMAIN d : \A y \in DOMAIN d : x >= y
         IN  <<d[k]>> \o SortedValuesDescending([x \in (DOMAIN d) \ {k} |-> d[x]])

\* sorted(d.items()) of a dict with integer keys: the values by ascending key.
RECURSIVE SortedValues(_)
SortedValues(d) ==
    IF DOMAIN d = {} THEN <<>>
    ELSE LET k == CHOOSE x \in DOMAIN d : \A y \in DOMAIN d : x <= y
         IN  <<d[k]>> \o SortedValues([x \in (DOMAIN d) \ {k} |-> d[x]])

\* MetaView.iter_members().
iter_members(v) == SortedValues(v.members_by_num)

-----------------------------------------------------------------------------
(* libmetaflask: MetaView.locate_linked_member *)

\* A path given to locate_linked_member, as the filesystem answers for it:
\* islink and target are what os.readlink and realpath give (the canonical
\* path the link leads to), readable and data what open(npath).read() gives.
NoPath == <<0, "">>
OtherPath == <<0, "elsewhere">>

NoDoc == [github |-> None, sponsor |-> None, body |-> ""]
NoQuery == [islink |-> FALSE, target |-> NoPath, readable |-> FALSE, data |-> NoDoc]
NotLocated == [exc |-> "unset", value |-> NoMember]
NotYielded == <<NoMember>>

\* os.readlink(path): the target, or OSError when path is no symbolic link.
os_readlink(p) ==
    IF p.islink THEN [exc |-> "", value |-> p.target]
    ELSE [exc |-> "OSError", value |-> NoPath]

\* open(npath, 'rb').read(): the bytes, or IOError (missing, dangling, a
\* directory).
open_read(p) ==
    IF p.readable THEN [exc |-> "", value |-> p.data]
    ELSE [exc |-> "IOError", value |-> p.data]

\* The first try block: the by-path lookup of the link's target; except
\* OSError: pass.
LinkLookup(v, p) ==
    LET l == os_readlink(p)
    IN  IF l.exc = "" THEN [exc |-> "", value |-> Get(v.members_by_path, l.value)]
        ELSE IF l.exc = "OSError" THEN [exc |-> "", value |-> NoMember]
        ELSE [exc |-> l.exc, value |-> NoMember]

\* The second try block: the by-checksum lookup of the file's bytes; except
\* IOError: pass.
ChecksumLookup(v, p) ==
    LET o == open_read(p)
    IN  IF o.exc = ""
        THEN [exc |-> "", value |-> Get(v.members_by_checksum, sha1(o.value))]
        ELSE IF o.exc = "IOError" THEN [exc |-> "", value |-> NoMember]
        ELSE [exc |-> o.exc, value |-> NoMember]

\* A bug: the symlink step is skipped, every path is resolved by its bytes.
locate_by_checksum_only(v, p) == ChecksumLookup(v, p)

\* MetaView.locate_linked_member(path): [exc, value], exc "" when it returns.
locate_linked_member(v, p) ==
    LET first == LinkLookup(v, p)
    IN  IF first.exc # "" \/ first.value # NoMember THEN first
        ELSE ChecksumLookup(v, p)

-----------------------------------------------------------------------------
(* metaflaskapi: get_member_tree_api *)

\* Member.sponsor: the member the sponsor header names, looked up by GitHub
\* handle; None when the header is absent, empty or <self>, or names nobody.
sponsor(v, m) ==
    IF m.sponsor_key \notin {None, "", "<self>"}
    THEN Get(v.members_by_github, m.sponsor_key)
    ELSE NoMember

\* links.setdefault(member.sponsor, []).append(member)
LinkMember(v, ls, m) ==
    LET s == sponsor(v, m)
    IN  IF s \in DOMAIN ls THEN [ls EXCEPT ![s] = Append(@, m)]
        ELSE [x \in (DOMAIN ls) \cup {s} |-> IF x = s THEN <<m>> ELSE ls[x]]

RECURSIVE LinkAll(_, _, _)
LinkAll(v, ls, ms) ==
    IF ms = <<>> THEN ls ELSE LinkAll(v, LinkMember(v, ls, Head(ms)), Tail(ms))

\* The loop over iter_members() that fills links.
BuildLinks(v) == LinkAll(v, <<>>, iter_members(v))

\* links.get(sponsor) or ()
Sponsored(ls, s) == IF s \in DOMAIN ls THEN ls[s] ELSE <<>>

\* A bug: the tree is rooted at the first member instead of at None.
FirstMemberRoot(v) ==
    IF iter_members(v) = <<>> THEN NoMember ELSE iter_members(v)[1]

\* The argument of the outermost call, _make_tree(None).
TreeRoot(v) == NoMember

\* The frame of a call _make_tree(s): the children built so far.
Frame(s) == [sponsor |-> s, sponsored |-> <<>>]

\* The dict a call returns.
Node(f) == [sponsor |-> f.sponsor, sponsored |-> f.sponsored]

NoTree == [sponsor |-> NoMember, sponsored |-> <<NoMember>>]

TreeIdle ==
    /\ links = <<>>
    /\ stack = <<>>
    /\ tree = NoTree
    /\ tpc = "idle"

\* No pass of sync_members has started.
SyncIdle ==
    /\ spc = "idle"
    /\ current_members = {}
    /\ intended_members = {}
    /\ new_members = {}
    /\ reported = {}
    /\ removed = {}
    /\ log = <<>>
    /\ passes = 0
    /\ settled = FALSE

\* What line holds before read_mime has looked at any line.
NoLine == <<"<no line>">>

\* read_mime has not been called.
MimeIdle ==
    /\ stream = <<>>
    /\ hashed = <<>>
    /\ headers = <<>>
    /\ line = NoLine
    /\ old_headers = <<>>
    /\ payload = <<>>
    /\ mpc = "closed"

\* The request arrives: get_metaview(), the links, and the outermost call.
TreeStart ==
    /\ tpc = "idle"
    /\ vpc = "new"
    /\ view' = MetaView(listing)
    /\ vpc' = "built"
    /\ links' = BuildLinks(view')
    /\ stack' = <<Frame(TreeRoot(view'))>>
    /\ tpc' = "running"
    /\ UNCHANGED <<listing, yielded, query, located, tree, syncVars, mimeVars>>

\* The list comprehension of the innermost call reaches its next member x and
\* calls _make_tree(x).
TreeCall ==
    /\ tpc = "running"
    /\ LET top == stack[Len(stack)]
           kids == Sponsored(links, top.sponsor)
       IN  /\ Len(top.sponsored) < Len(kids)
           /\ stack' = Append(stack, Frame(kids[Len(top.sponsored) + 1]))
    /\ UNCHANGED <<viewVars, links, tree, tpc, syncVars, mimeVars>>

\* The innermost call has built all its children and returns its dict: to
\* the caller's list, or as the response.
TreeReturn ==
    /\ tpc = "running"
    /\ LET top == stack[Len(stack)]
           kids == Sponsored(links, top.sponsor)
       IN  /\ Len(top.sponsored) = Len(kids)
           /\ IF Len(stack) = 1
              THEN /\ tree' = Node(top)
                   /\ stack' = <<>>
                   /\ tpc' = "done"
              ELSE /\ stack' = [SubSeq(stack, 1, Len(stack) - 1) EXCEPT
                                   ![Len(stack) - 1].sponsored = Append(@, Node(top))]
                   /\ UNCHANGED <<tree, tpc>>
    /\ UNCHANGED <<viewVars, links, syncVars, mimeVars>>

TreeNames == {<<1, "x">>, <<2, "y">>, <<3, "z">>}
TreeDocs == [github : {None, "a", "b", "c"},
             sponsor : {None, "", "<self>", "a", "b", "c"},
             body : {"p"}]

RECURSIVE InNameOrder(_, _)
InNameOrder(names, f) ==
    IF names = {} THEN <<>>
    ELSE LET n == CHOOSE x \in names : \A y \in names : x[1] <= y[1]
         IN  <<[num |-> n[1], id |-> n[2], doc |-> f[n]]>> \o InNameOrder(names \ {n}, f)

\* The listings that hold some of the files named, each with a document of
\* docs, enumerated in filename order.
OrderedListings(allnames, docs) ==
    UNION {{InNameOrder(names, f) : f \in [names -> docs]} : names \in SUBSET allnames}

\* The tree requests start from no checkout at all.
InitTree ==
    /\ listing = <<>>
    /\ view = EmptyView
    /\ vpc = "nocheckout"
    /\ yielded = NotYielded
    /\ query = NoQuery
    /\ located = NotLocated
    /\ TreeIdle
    /\ SyncIdle
    /\ MimeIdle
    /\ roster = {}
    /\ invited = {}

\* sync_local_repo(): git clone or pull brings the members directory, with
\* whatever files the repository holds.
Checkout ==
    /\ vpc = "nocheckout"
    /\ listing' \in OrderedListings(TreeNames, TreeDocs)
    /\ vpc' = "new"
    /\ UNCHANGED <<view, yielded, query, located, treeVars, syncVars, mimeVars>>

NextTree == Checkout \/ TreeStart \/ TreeCall \/ TreeReturn

\* Once called, _make_tree runs on: the interpreter takes the next step of
\* the recursion whenever there is one.
SpecTree == InitTree /\ [][NextTree]_vars /\ WF_vars(TreeCall \/ TreeReturn)

\* The same requests over the checkouts in which two files may carry the
\* same member number.
NumberedNames == {<<1, "w">>, <<1, "x">>, <<2, "y">>}

CheckoutNumbered ==
    /\ vpc = "nocheckout"
    /\ listing' \in OrderedListings(NumberedNames, TreeDocs)
    /\ vpc' = "new"
    /\ UNCHANGED <<view, yielded, query, located, treeVars, syncVars, mimeVars>>

NextTreeNumbered == CheckoutNumbered \/ TreeStart \/ TreeCall \/ TreeReturn

SpecTreeNumbered == InitTree /\ [][NextTreeNumbered]_vars

-----------------------------------------------------------------------------
(* The registry: construction and its read operations *)

ViewNames == {<<1, "x">>, <<1, "y">>, <<2, "x">>, <<0, "README">>}
ViewDocs == [github : {None, "a"}, sponsor : {None}, body : {"p", "q"}]
ViewEntries == {[num |-> n[1], id |-> n[2], doc |-> d] : n \in ViewNames, d \in ViewDocs}

\* The listings of at most n entries drawn from es: no filename twice, any
\* enumeration order.
Listings(es, n) ==
    UNION {{s \in [1..k -> es] :
               \A i, j \in 1..k : i # j => <<s[i].num, s[i].id>> # <<s[j].num, s[j].id>>}
           : k \in 0..n}

\* The members a listing holds, whatever the order.
MembersOf(entries) ==
    {Member_init(entries[i]) : i \in {j \in DOMAIN entries : member_re_match(entries[j])}}

\* The entries of a listing that are member files.
MemberEntries(entries) ==
    {entries[i] : i \in {j \in DOMAIN entries : member_re_match(entries[j])}}

\* The paths a caller can hand over, given the members directory: a link to a
\* member file (which then reads as that file), a link to a member filename
\* that is not there (dangling), and a link that leads elsewhere or a plain
\* file, either with any bytes or unreadable.
Queries(entries) ==
    LET there == {<<e.num, e.id>> : e \in MemberEntries(entries)}
    IN  {[islink |-> TRUE, target |-> <<e.num, e.id>>, readable |-> TRUE, data |-> e.doc] :
            e \in MemberEntries(entries)}
        \cup
        {[islink |-> TRUE, target |-> n, readable |-> FALSE, data |-> NoDoc] :
            n \in {x \in ViewNames : x[1] > 0} \ there}
        \cup
        {[islink |-> l, target |-> IF l THEN OtherPath ELSE NoPath,
          readable |-> TRUE, data |-> d] : l \in BOOLEAN, d \in ViewDocs}
        \cup
        {[islink |-> l, target |-> IF l THEN OtherPath ELSE NoPath,
          readable |-> FALSE, data |-> NoDoc] : l \in BOOLEAN}

InitView ==
    /\ listing \in Listings(ViewEntries, MaxFiles)
    /\ view = EmptyView
    /\ vpc = "new"
    /\ yielded = NotYielded
    /\ query = NoQuery
    /\ located = NotLocated
    /\ TreeIdle
    /\ SyncIdle
    /\ MimeIdle
    /\ roster = {}
    /\ invited = {}

\* get_metaview(): MetaView(LOCAL_CHECKOUT).
Construct ==
    /\ vpc = "new"
    /\ view' = MetaView(listing)
    /\ vpc' = "built"
    /\ UNCHANGED <<listing, yielded, query, located, treeVars, syncVars, mimeVars>>

\* A caller iterates iter_members() to its end.
IterMembers ==
    /\ vpc = "built"
    /\ yielded' = iter_members(view)
    /\ UNCHANGED <<listing, view, vpc, query, located, treeVars, syncVars, mimeVars>>

\* A caller (Project.project_lead, Project.stewards) resolves a path.
Locate ==
    /\ vpc = "built"
    /\ \E p \in Queries(listing) :
          /\ query' = p
          /\ located' = locate_linked_member(view, p)
    /\ UNCHANGED <<listing, view, vpc, yielded, treeVars, syncVars, mimeVars>>

NextView == Construct \/ IterMembers \/ Locate

SpecView == InitView /\ [][NextView]_vars

-----------------------------------------------------------------------------
(* metaflaskapi: the GitHub team and sync_members *)

\* An entry of the pass's log: a remote call (ok: it did not fail with a
\* transport or HTTP error) or a yielded action.
Call(what, member, ok) == [ev |-> "call", what |-> what, member |-> member, ok |-> ok]
Yield(op, member) == [ev |-> "yield", what |-> op, member |-> member, ok |-> TRUE]

\* The answers GET teams/<id>/memberships/<username> can give: GitHub's own
\* (200 with the state, or 404), no answer at all (requests raises), an
\* error status with GitHub's JSON error body, or one with a body that is no
\* JSON (a gateway's).
Transport == [kind |-> "transport", status |-> 0, json |-> FALSE, state |-> None]
PendingResponses(username) ==
    {IF username \in invited
        THEN [kind |-> "http", status |-> 200, json |-> TRUE, state |-> "pending"]
     ELSE IF username \in roster
        THEN [kind |-> "http", status |-> 200, json |-> TRUE, state |-> "active"]
     ELSE [kind |-> "http", status |-> 404, json |-> TRUE, state |-> None],
     Transport,
     [kind |-> "http", status |-> 401, json |-> TRUE, state |-> None],
     [kind |-> "http", status |-> 502, json |-> FALSE, state |-> None]}

\* The call got its answer and the answer is no error.
ResponseOk(resp) == resp.kind = "http" /\ resp.status \in {200, 404}

\* A fix of member_is_pending: rv.raise_for_status() for every status but 404.
member_is_pending_checked(resp) ==
    IF resp.kind = "transport" THEN "raise"
    ELSE IF resp.status = 404 THEN "False"
    ELSE IF resp.status >= 400 \/ ~resp.json THEN "raise"
    ELSE IF resp.state = "pending" THEN "True" ELSE "False"

\* member_is_pending(username), given the answer: "True", "False", or "raise"
\* when requests or rv.json() raises.
member_is_pending(resp) ==
    IF resp.kind = "transport" THEN "raise"
    ELSE IF resp.status = 404 THEN "False"
    ELSE IF ~resp.json THEN "raise"
    ELSE IF resp.state = "pending" THEN "True" ELSE "False"

\* get_intended_members(metaview): the (num, github) pairs of iter_members(),
\* sorted, and of each its github.
get_intended_members(v) ==
    LET members == SortByNum(iter_members(v))
    IN  [i \in DOMAIN members |-> members[i].github]

\* A bug: the action of a member that is pending is tagged added.
IntendedOpNoPending(member, current, pending) ==
    IF member \notin current THEN "added" ELSE "retained"

\* The tag the first loop yields for member.
IntendedOp(member, current, pending) ==
    IF member \notin current
    THEN IF pending THEN "pending" ELSE "added"
    ELSE "retained"

\* The first loop asks member_is_pending(member).
AsksPending(member, current) == member \notin current

\* A bug: add_member(member) is called whatever member_is_pending said.
CallsAddIgnoringPending(member, current, pending) == member \notin current

\* The first loop calls add_member(member).
CallsAdd(member, current, pending) == member \notin current /\ ~pending

\* A bug: the second loop runs over all of current_members.
LeftoverAll(current, new) == current

\* current_members - new_members: what the second loop runs over.
Leftover(current, new) == current \ new

\* The bound on the passes of one run.
MaxPasses == 2

\* sync_api / sync_members_cmd: get_metaview(sync=True), then sync_members up
\* to its first loop: get_current_members() and the intended set.
SyncStart ==
    /\ spc \in {"idle", "done", "failed"}
    /\ passes < MaxPasses
    /\ passes' = passes + 1
    /\ settled' = (spc = "done")
    /\ view' = MetaView(listing)
    /\ vpc' = "built"
    /\ new_members' = {}
    /\ reported' = {}
    /\ removed' = {}
    /\ \E ok \in BOOLEAN :
          /\ log' = <<Call("list", "", ok)>>
          /\ IF ok
             THEN /\ current_members' = roster
                  /\ intended_members' = Range(get_intended_members(view'))
                  /\ spc' = "running"
             ELSE /\ current_members' = {}
                  /\ intended_members' = {}
                  /\ spc' = "failed"
    /\ UNCHANGED <<listing, yielded, query, located, treeVars, remoteVars, mimeVars>>

\* One round of the first loop, for whichever member the set hands out next:
\* the calls it makes, then its yield, unless a call raises.
SyncIntended ==
    /\ spc = "running"
    /\ \E member \in intended_members \ new_members :
       \E resp \in PendingResponses(member), added \in {"member", "invited", "error"} :
          LET asks == AsksPending(member, current_members)
              p == IF asks THEN member_is_pending(resp) ELSE "False"
              adds == p # "raise" /\ CallsAdd(member, current_members, p = "True")
              asked == IF asks THEN <<Call("is_pending", member, ResponseOk(resp))>>
                       ELSE <<>>
              called == IF adds THEN <<Call("add", member, added # "error")>> ELSE <<>>
              raised == p = "raise" \/ (adds /\ added = "error")
          IN  \* one step for each way the round can go
              /\ asks \/ resp = Transport
              /\ adds \/ added = "error"
              /\ roster' = IF adds /\ added = "member" THEN roster \cup {member} ELSE roster
              /\ invited' = IF adds /\ added = "invited" THEN invited \cup {member} ELSE invited
              /\ reported' = IF p = "True" THEN reported \cup {member} ELSE reported
              /\ IF raised
                 THEN /\ log' = log \o asked \o called
                      /\ spc' = "failed"
                      /\ UNCHANGED new_members
                 ELSE /\ log' = log \o asked \o called \o
                                <<Yield(IntendedOp(member, current_members, p = "True"), member)>>
                      /\ new_members' = new_members \cup {member}
                      /\ UNCHANGED spc
    /\ UNCHANGED <<viewVars, treeVars, mimeVars, current_members, intended_members, removed,
                   passes, settled>>

\* One round of the second loop: remove_member, then the yield.
SyncLeftover ==
    /\ spc = "running"
    /\ intended_members \subseteq new_members
    /\ \E member \in Leftover(current_members, new_members) \ removed :
       \E ok \in BOOLEAN :
          /\ IF ok
             THEN /\ roster' = roster \ {member}
                  /\ log' = log \o <<Call("remove", member, TRUE), Yield("deleted", member)>>
                  /\ removed' = removed \cup {member}
                  /\ UNCHANGED spc
             ELSE /\ log' = Append(log, Call("remove", member, FALSE))
                  /\ spc' = "failed"
                  /\ UNCHANGED <<roster, removed>>
    /\ UNCHANGED <<viewVars, treeVars, mimeVars, invited, current_members, intended_members,
                   new_members, reported, passes, settled>>

\* Both loops are through: the generator ends.
SyncFinish ==
    /\ spc = "running"
    /\ intended_members \subseteq new_members
    /\ Leftover(current_members, new_members) \subseteq removed
    /\ spc' = "done"
    /\ UNCHANGED <<viewVars, treeVars, mimeVars, remoteVars, current_members, intended_members,
                   new_members, reported, removed, log, passes, settled>>

\* The registries of the passes: member 1 is alice or has no handle, member 2
\* is bob or alice again, member 3 is carol; any of them may be missing.
SyncDocs == [github : {None, "alice", "bob", "carol"}, sponsor : {None}, body : {"p"}]
SyncHandles(n) ==
    IF n[1] = 1 THEN {"alice", None} ELSE IF n[1] = 2 THEN {"bob", "alice"} ELSE {"carol"}
SyncListings(allnames) ==
    {l \in OrderedListings(allnames, SyncDocs) :
        \A i \in DOMAIN l : l[i].doc.github \in SyncHandles(<<l[i].num, l[i].id>>)}

InitSync ==
    /\ listing \in SyncListings(TreeNames)
    /\ view = EmptyView
    /\ vpc = "new"
    /\ yielded = NotYielded
    /\ query = NoQuery
    /\ located = NotLocated
    /\ TreeIdle
    /\ SyncIdle
    /\ MimeIdle
    /\ roster \in SUBSET {"bob", "dave"}
    /\ invited \in SUBSET {"alice"}

NextSync == SyncStart \/ SyncIntended \/ SyncLeftover \/ SyncFinish

SpecSync == InitSync /\ [][NextSync]_vars

-----------------------------------------------------------------------------
(* libmetaflask.py: read_mime *)

\* A line of a file is the sequence of its characters, with the line
\* terminator that _readline strips left out.  A file is the sequence of its
\* lines.
Whitespace == {" ", "\t"}

\* unicode.isspace() of one character.
isspace(c) == c \in Whitespace

\* not line.strip(): the line holds whitespace only, or nothing.
strip_is_empty(l) == \A i \in DOMAIN l : isspace(l[i])

\* The text without its trailing, or leading, whitespace: what the \s* on
\* either side of the colon of _kv_re takes away from the groups.
RECURSIVE rstrip(_)
rstrip(l) ==
    IF l # <<>> /\ isspace(l[Len(l)]) THEN rstrip(SubSeq(l, 1, Len(l) - 1)) ELSE l

RECURSIVE lstrip(_)
lstrip(l) ==
    IF l # <<>> /\ isspace(l[1]) THEN lstrip(Tail(l)) ELSE l

\* _kv_re.match(line) is not None: ^(.*?)\s*:\s*(.*?)$ matches every line that
\* holds a colon, whatever the line starts with.
kv_re_match(l) == \E i \in DOMAIN l : l[i] = ":"

\* match.groups(): the lazy first group ends before the whitespace that
\* precedes the first colon; the second is the rest after the colon and the
\* whitespace that follows it.
kv_re_groups(l) ==
    LET c == CHOOSE i \in DOMAIN l :
                 l[i] = ":" /\ \A j \in DOMAIN l : l[j] = ":" => i <= j
    IN  <<rstrip(SubSeq(l, 1, c - 1)), lstrip(SubSeq(l, c + 1, Len(l)))>>

\* headers[-1] = (old_key, old_value + u' ' + line[1:])
fold(hs, l) ==
    [hs EXCEPT ![Len(hs)] = <<hs[Len(hs)][1], hs[Len(hs)][2] \o <<" ">> \o Tail(l)>>]

\* The files read: every file of at most MaxLines lines of at most
\* MaxLineLen characters.
Chars == {" ", ":", "k"}
MaxLineLen == 3
MaxLines == 3
Lines(len) == UNION {[1..n -> Chars] : n \in 0..len}
Files(len, count) == UNION {[1..n -> Lines(len)] : n \in 0..count}

\* with open(path) as f: read_mime(f), up to the loop.
MimeOpen ==
    /\ mpc = "closed"
    /\ stream' \in Files(MaxLineLen, MaxLines)
    /\ hashed' = <<>>
    /\ headers' = <<>>
    /\ line' = NoLine
    /\ old_headers' = <<>>
    /\ payload' = <<>>
    /\ mpc' = "reading"
    /\ UNCHANGED <<viewVars, treeVars, syncVars>>

\* One turn of the loop of read_mime: _readline(), then the three branches.
\* On a blank line or at the end of the file the loop is left, and the
\* rest of the function runs: the rest of the file is read, hashed and
\* returned.
MimeLine ==
    /\ mpc = "reading"
    /\ old_headers' = headers
    /\ IF stream = <<>> \/ strip_is_empty(Head(stream))
       THEN /\ line' = <<>>
            /\ payload' = IF stream = <<>> THEN <<>> ELSE Tail(stream)
            /\ hashed' = hashed \o stream
            /\ stream' = <<>>
            /\ mpc' = "returned"
            /\ UNCHANGED headers
       ELSE /\ line' = Head(stream)
            /\ stream' = Tail(stream)
            /\ hashed' = Append(hashed, Head(stream))
            /\ UNCHANGED payload
            /\ IF kv_re_match(Head(stream))
               THEN /\ headers' = Append(headers, kv_re_groups(Head(stream)))
                    /\ UNCHANGED mpc
               ELSE IF isspace(Head(stream)[1])
               THEN IF headers = <<>>
                    THEN /\ mpc' = "IndexError"
                         /\ UNCHANGED headers
                    ELSE /\ headers' = fold(headers, Head(stream))
                         /\ UNCHANGED mpc
               ELSE /\ mpc' = "ValueError"
                    /\ UNCHANGED headers
    /\ UNCHANGED <<viewVars, treeVars, syncVars>>

\* The file is closed; the next one can be read.
MimeClose ==
    /\ mpc \in {"returned", "ValueError", "IndexError"}
    /\ stream' = <<>>
    /\ hashed' = <<>>
    /\ headers' = <<>>
    /\ line' = NoLine
    /\ old_headers' = <<>>
    /\ payload' = <<>>
    /\ mpc' = "closed"
    /\ UNCHANGED <<viewVars, treeVars, syncVars>>

InitMime ==
    /\ listing = <<>>
    /\ view = EmptyView
    /\ vpc = "nocheckout"
    /\ yielded = NotYielded
    /\ query = NoQuery
    /\ located = NotLocated
    /\ TreeIdle
    /\ SyncIdle
    /\ MimeIdle
    /\ roster = {}
    /\ invited = {}

NextMime == MimeOpen \/ MimeLine \/ MimeClose

SpecMime == InitMime /\ [][NextMime]_vars

-----------------------------------------------------------------------------
(* Claims about the reconciler *)

\* The actions the pass has yielded, and the indices of the log of a kind.
Yields == SelectSeq(log, LAMBDA e : e.ev = "yield")
YieldsOf(m) == {i \in DOMAIN log : log[i].ev = "yield" /\ log[i].member = m}
CallsOf(what, m) ==
    {i \in DOMAIN log : log[i].ev = "call" /\ log[i].what = what /\ log[i].member = m}
Tags == {log[i].what : i \in {j \in DOMAIN log : log[j].ev = "yield"}}
Identities == intended_members \cup current_members

\* C1: a pass that runs to its end has yielded exactly one action for every
\* intended identity, tagged added, pending or retained, exactly one deleted
\* action for every current identity that is not intended, and nothing else.
C1_Complete ==
    spc = "done" =>
        /\ \A m \in intended_members :
              /\ Cardinality(YieldsOf(m)) = 1
              /\ \A i \in YieldsOf(m) : log[i].what \in {"added", "pending", "retained"}
        /\ \A m \in current_members \ intended_members :
              /\ Cardinality(YieldsOf(m)) = 1
              /\ \A i \in YieldsOf(m) : log[i].what = "deleted"
        /\ \A i \in DOMAIN log : log[i].ev = "yield" => log[i].member \in Identities

\* C1's case: a pass ran to its end and yielded all four kinds of action.
C1_Witness ==
    /\ spc = "done"
    /\ Tags = {"added", "pending", "retained", "deleted"}

\* The place of identity x in the intended list: its first.
Pos(list, x) == CHOOSE i \in DOMAIN list : list[i] = x /\ \A j \in 1..(i - 1) : list[j] # x

\* C2: the actions of the intended identities are yielded in the registry's
\* ascending member-number order, one for each at the end of the pass, and
\* every deleted action comes after all of them.
C2_RegistryOrder ==
    LET acts == Yields
        list == get_intended_members(view)
    IN  /\ \A i, j \in DOMAIN acts :
              (i < j /\ acts[i].what # "deleted" /\ acts[j].what # "deleted")
                  => Pos(list, acts[i].member) < Pos(list, acts[j].member)
        /\ \A i, j \in DOMAIN acts :
              (acts[i].what = "deleted" /\ acts[j].what # "deleted") => j < i
        /\ spc = "done" => \A m \in Range(list) : Cardinality(YieldsOf(m)) = 1

\* C3: a member without a GitHub handle contributes no intended identity: the
\* reconciler's intended set holds no absent handle, and no action is yielded
\* and no is_pending, add or remove call is made for one.
C3_NoAbsentHandle ==
    /\ None \notin intended_members
    /\ \A i \in DOMAIN log : log[i].what # "list" => log[i].member # None

\* C4: a pass that follows a pass that ran to its end, on the same registry
\* and the roster as that pass left it, yields no added and no deleted action
\* and makes no add_member or remove_member call.
C4_Idempotent ==
    settled =>
        \A i \in DOMAIN log : log[i].what \notin {"added", "deleted", "add", "remove"}

\* C5: an added action comes after exactly one add_member call for its
\* identity and a deleted action after exactly one remove_member call; for a
\* retained or pending identity there is no such call; and when the pass has
\* run to its end every add_member or remove_member call it made is reported
\* by the action that follows it.
C5_AuditLog ==
    /\ \A i \in DOMAIN log : log[i].ev = "yield" =>
          LET m == log[i].member
              adds == CallsOf("add", m)
              removes == CallsOf("remove", m)
          IN  /\ log[i].what = "added" =>
                    Cardinality(adds) = 1 /\ removes = {} /\ \A c \in adds : c < i
              /\ log[i].what = "deleted" =>
                    Cardinality(removes) = 1 /\ adds = {} /\ \A c \in removes : c < i
              /\ log[i].what \in {"retained", "pending"} => adds = {} /\ removes = {}
    /\ spc = "done" =>
          \A c \in DOMAIN log : (log[c].ev = "call" /\ log[c].what \in {"add", "remove"}) =>
              /\ c < Len(log)
              /\ log[c + 1] = Yield(IF log[c].what = "add" THEN "added" ELSE "deleted",
                                    log[c].member)

\* C5's case: a pass ran to its end with added, pending and deleted actions.
C5_Witness ==
    /\ spc = "done"
    /\ {"added", "pending", "deleted"} \subseteq Tags
    /\ Cardinality({i \in DOMAIN log : log[i].what = "added"}) >= 2

\* C6: a remote call that fails with a transport or authorization error ends
\* the pass there: it is the last entry of the log and the pass has failed,
\* so no call and no action follows it; and what the pass had added or
\* removed before stays so.
C6_FailureAborts ==
    /\ \A i \in DOMAIN log : (log[i].ev = "call" /\ ~log[i].ok) =>
          i = Len(log) /\ spc = "failed"
    /\ spc = "failed" =>
          \A i \in DOMAIN log : (log[i].ev = "call" /\ log[i].ok) =>
              /\ log[i].what = "add" => log[i].member \in roster \cup invited
              /\ log[i].what = "remove" => log[i].member \notin roster

-----------------------------------------------------------------------------
(* Claims about the sponsorship tree *)

\* No member is the sponsor of two frames of the call stack: the path from
\* the root to the node being built names nobody twice.
StackSimple ==
    \A i, j \in DOMAIN stack : i # j => stack[i].sponsor # stack[j].sponsor

\* No root-to-node path below node names a member of seen, or a member twice.
RECURSIVE PathsSimple(_, _)
PathsSimple(node, seen) ==
    /\ node.sponsor \notin seen
    /\ \A i \in DOMAIN node.sponsored :
          PathsSimple(node.sponsored[i], seen \cup {node.sponsor})

TreeSimple == tpc = "done" => PathsSimple(tree, {})

\* C7: building the sponsorship tree terminates for every sponsor relation,
\* cyclic ones included, and neither the tree under construction nor the one
\* returned holds a member twice on one root-to-node path.
C7_TreeTerminates ==
    /\ [](StackSimple /\ TreeSimple)
    /\ (tpc = "running") ~> (tpc = "done")

\* C7's case: the tree was returned for a registry in which three members
\* sponsor each other in a cycle, none of them rooted.
C7_Witness ==
    /\ tpc = "done"
    /\ \E a, b, c \in Range(iter_members(view)) :
          /\ a # b /\ b # c /\ a # c
          /\ sponsor(view, b) = a
          /\ sponsor(view, c) = b
          /\ sponsor(view, a) = c

\* The tree was returned for a registry with a member who names their own
\* handle as sponsor, beside a rooted member with a sponsored one.
C7_WitnessSelf ==
    /\ tpc = "done"
    /\ \E a \in Range(iter_members(view)) : sponsor(view, a) = a
    /\ \E i \in DOMAIN tree.sponsored : tree.sponsored[i].sponsored # <<>>

-----------------------------------------------------------------------------
(* Claims about the registry *)

\* Member m sits in its slot of every index it qualifies for.
Indexed(v, m) ==
    /\ Get(v.members_by_id, m.id) = m
    /\ Get(v.members_by_num, m.num) = m
    /\ Get(v.members_by_checksum, m.checksum) = m
    /\ Get(v.members_by_path, m.path) = m
    /\ m.github # None => Get(v.members_by_github, m.github) = m

\* C8: after MetaView construction every member read from the members
\* directory is found in its slot of the by-id, by-number, by-checksum and
\* by-path index, and of the by-GitHub index when it has a handle, also when
\* two member files share a number, a handle or their bytes.
C8_EveryMemberIndexed ==
    vpc = "built" => \A m \in MembersOf(listing) : Indexed(view, m)

\* No two entries of s, taken as they come, are out of strictly ascending
\* number order.
StrictlyAscending(s) == \A i \in 1..(Len(s) - 1) : s[i].num < s[i + 1].num

\* The listing in another enumeration order.
Reordered(entries, perm) == [i \in DOMAIN entries |-> entries[perm[i]]]

DistinctNums(entries) ==
    \A e1, e2 \in MemberEntries(entries) : e1 # e2 => e1.num # e2.num

HasYielded == yielded # NotYielded

\* C9: iter_members() yields members in strictly ascending member-number
\* order, whatever the enumeration order of the directory, and when the
\* member numbers are distinct it yields the same sequence, holding every
\* member, for every enumeration order of the same files.
C9_IterMembersAscending ==
    HasYielded =>
        /\ StrictlyAscending(yielded)
        /\ DistinctNums(listing) =>
              /\ Range(yielded) = MembersOf(listing)
              /\ \A perm \in Permutations(DOMAIN listing) :
                    iter_members(MetaView(Reordered(listing, perm))) = yielded

\* C9's case: two or more members were yielded from a directory that lists
\* them in descending number order.
C9_Witness ==
    /\ HasYielded
    /\ Len(yielded) >= 2
    /\ DistinctNums(listing)
    /\ \E i, j \in DOMAIN listing :
          i < j /\ listing[j].num > 0 /\ listing[i].num > listing[j].num

HasLocated == located.exc # "unset"

\* The query is a symbolic link whose target is a member file of the listing.
LinkToMember(entries, p) ==
    p.islink /\ \E e \in MemberEntries(entries) : <<e.num, e.id>> = p.target

\* The query reads as the exact bytes of a member file of the listing.
BytesOfMember(entries, p) ==
    p.readable /\ \E e \in MemberEntries(entries) : e.doc = p.data

\* C10: locate_linked_member never raises; a symbolic link to a known member
\* file returns the member of that file; any other path (no link, a link
\* error, a target that is no member file) is resolved by its bytes: bytes
\* equal to a known member file's return a member with those bytes, and a
\* path matching neither returns None.
C10_LocateLinkedMember ==
    HasLocated =>
        /\ located.exc = ""
        /\ LinkToMember(listing, query) =>
              /\ located.value \in MembersOf(listing)
              /\ located.value.path = query.target
        /\ (~LinkToMember(listing, query) /\ BytesOfMember(listing, query)) =>
              /\ located.value \in MembersOf(listing)
              /\ located.value.checksum = sha1(query.data)
        /\ (~LinkToMember(listing, query) /\ ~BytesOfMember(listing, query)) =>
              located.value = NoMember

\* C10's case: a path that is not a link was resolved by its bytes to a
\* member, in a registry where a link to another member was resolvable too.
C10_Witness ==
    /\ HasLocated
    /\ ~query.islink
    /\ located.value # NoMember
    /\ Cardinality(MembersOf(listing)) >= 2

-----------------------------------------------------------------------------
(* Claims about read_mime *)

\* The loop of read_mime has looked at a non-blank line.
HasClassified == line # NoLine /\ ~strip_is_empty(line)

\* C11: read_mime classifies every non-blank line of the header section: a
\* line that starts with whitespace is always a continuation, which extends
\* the value of the previous entry by one space and the line without its
\* first character, also when that text holds a colon; a key: value line
\* appends a new entry; any other line, and a continuation with no previous
\* entry, fails with the format error (ValueError) and no other error.
C11_LineClassification ==
    HasClassified =>
        IF isspace(line[1])
        THEN IF old_headers = <<>>
             THEN mpc = "ValueError" /\ headers = old_headers
             ELSE mpc = "reading" /\ headers = fold(old_headers, line)
        ELSE IF kv_re_match(line)
        THEN mpc = "reading" /\ headers = Append(old_headers, kv_re_groups(line))
        ELSE mpc = "ValueError" /\ headers = old_headers

-----------------------------------------------------------------------------
(* Claims about the calls of a pass *)

\* The remote calls of a kind the pass has made so far.
CallsMade(what) == {i \in DOMAIN log : log[i].ev = "call" /\ log[i].what = what}

\* C12: in every pass of sync_members, remove_member is never called for an
\* identity of the intended set, add_member is never called for an identity
\* that is in the current roster the pass fetched or that member_is_pending
\* reported pending, and member_is_pending is asked only for intended
\* identities that are not in the current roster, at most once for each.
C12_SafeCalls ==
    /\ \A i \in CallsMade("remove") : log[i].member \notin intended_members
    /\ \A i \in CallsMade("add") :
          /\ log[i].member \notin current_members
          /\ log[i].member \notin reported
    /\ \A i \in CallsMade("is_pending") :
          /\ log[i].member \in intended_members \ current_members
          /\ Cardinality(CallsOf("is_pending", log[i].member)) = 1

\* C12's case: a pass ran to its end in which one identity was reported
\* pending, another was asked about and added, a third was retained and a
\* fourth was removed.
C12_Witness ==
    /\ spc = "done"
    /\ reported # {}
    /\ CallsMade("add") # {}
    /\ CallsMade("remove") # {}
    /\ "retained" \in Tags
    /\ Cardinality(CallsMade("is_pending")) >= 2

-----------------------------------------------------------------------------
(* Claims about the members of the sponsorship tree *)

\* Following the resolved sponsor links from m reaches, within n steps, a
\* member with no resolved sponsor.
RECURSIVE ReachesRoot(_, _)
ReachesRoot(m, n) ==
    \/ sponsor(view, m) = NoMember
    \/ n > 0 /\ ReachesRoot(sponsor(view, m), n - 1)

\* m is rooted: the chain of its sponsors ends; a chain of more links than
\* there are member files runs into a cycle.
Rooted(m) == ReachesRoot(m, Len(listing))

\* The number of nodes of m at or below node.
RECURSIVE Occurrences(_, _)
RECURSIVE OccurrencesIn(_, _)
Occurrences(node, m) ==
    (IF node.sponsor = m THEN 1 ELSE 0) + OccurrencesIn(node.sponsored, m)
OccurrencesIn(nodes, m) ==
    IF nodes = <<>> THEN 0
    ELSE Occurrences(Head(nodes), m) + OccurrencesIn(Tail(nodes), m)

\* Every node below node sits under the node of its resolved sponsor.
RECURSIVE UnderSponsor(_)
UnderSponsor(node) ==
    \A i \in DOMAIN node.sponsored :
        /\ sponsor(view, node.sponsored[i].sponsor) = node.sponsor
        /\ UnderSponsor(node.sponsored[i])

\* C13: in the tree get_member_tree_api returns, a member yielded by
\* iter_members is a node if and only if following its resolved sponsor links
\* reaches a member with no resolved sponsor; a member that is a node is one
\* exactly once in the whole tree, under its resolved sponsor; a member on or
\* below a sponsorship cycle is no node.
C13_TreeMembers ==
    tpc = "done" =>
        /\ \A m \in Range(iter_members(view)) :
              /\ Occurrences(tree, m) \in {0, 1}
              /\ Occurrences(tree, m) = 1 <=> Rooted(m)
        /\ UnderSponsor(tree)

====
